---- MODULE Spec2Model ----
(***************************************************************************)
(* A model of aussie_parameter_search.py: the shared AsyncRateLimiter, the *)
(* per-site fetch with its 429 retry loop, the semaphore-bounded fan-out   *)
(* of fetch_all_parameters and the glue in main.                           *)
(*                                                                         *)
(* Time is the event loop's clock, asyncio.get_event_loop().time(), read   *)
(* in whole seconds: two reads in the same second return the same value.   *)
(* The model keeps the clock relative.  For a timestamp ts the code stored *)
(* it holds the age now - ts, for a timer the time left until it is due,   *)
(* and Tick moves all of them by one second.  An age stops growing once    *)
(* it is past every value the code compares it with.                       *)
(*                                                                         *)
(* A coroutine runs without interruption from one await that suspends to   *)
(* the next, so each action below is one such stretch of code.  Process 0  *)
(* is the task running main(); process i in 1..Len(site_ids) is the worker *)
(* task of site_ids[i].                                                    *)
(***************************************************************************)
EXTENDS Integers, Sequences, FiniteSets, TLC

\* ------------------------------------------------------------ bounds
\* The longest listing response (number of records) the model explores.
MaxRecords == 3

\* rate_limiter = AsyncRateLimiter(max_per_sec=...), scaled down.
max_per_sec == 2

\* fetch_all_parameters(site_ids, concurrency=...): the largest limit
\* the model explores.
MaxConcurrency == 2

\* ------------------------------------------------- program constants
\* The limiter's window: the literal 1.0 of acquire, in clock units.
Second == 1

\* for attempt in range(4)
MaxAttempts == 4

\* min(2 ** attempt, 8)
BackoffCap == 8

\* ------------------------------------------------------------ inputs
\* Site ids the listing may name, and the missing id (JSON null).
SiteIds == {"A", "B"}

NoSite == "null"

\* Status codes the remote API answers with.
Statuses == {200, 404, 429, 500}

\* The Retry-After header of a 429: absent, or a string of characters.
NoHeader == <<"absent">>

RetryAfterHeaders == {NoHeader, <<"0">>, <<"3">>, <<"s", "o", "o", "n">>}

\* JSON bodies of a 200 answer to the per-site GET: resp.json().
OneReading == [since |-> "t0", until |-> "t1", averageValue |-> 1]

OneParameter ==
    [name |-> "PM2.5", unit |-> "ug",
     timeSeriesReadings |->
        << [timeSeriesName |-> "1HR_AV", readings |-> <<OneReading>>] >>]

Bodies ==
    { [siteName |-> "s"],
      [parameters |-> <<>>],
      [siteName |-> "s", parameters |-> <<>>],
      [siteName |-> "s", parameters |-> <<OneParameter>>] }

\* The listing responses: every list of at most MaxRecords records, each
\* record reduced to its siteID (a site id, or null).
Listings ==
    UNION { [1..n -> SiteIds \cup {NoSite}] : n \in 0..MaxRecords }

Main == 0

Procs == 0..MaxRecords

Workers == 1..MaxRecords

NoOne == -1

VARIABLES
    win,            \* rate_limiter._win, oldest first: now - ts of each
    lock,           \* owner of rate_limiter._lock, or NoOne
    sleep_left,     \* time left of the sleep of acquire (line 38)
    pc,             \* where each task is suspended
    records,        \* main's records, until site_ids is derived and used
    site_ids,       \* main's site_ids
    concurrency,    \* the concurrency argument of fetch_all_parameters
    created,        \* len(tasks) in fetch_all_parameters
    sem,            \* the semaphore's free slots
    attempt,        \* the loop variable of fetch_site_parameters
    delay,          \* the local `delay` of the last 429
    retry_after,    \* the Retry-After header of the last 429
    elapsed,        \* time since the last backoff sleep began
    hist,           \* status codes each worker's GETs were answered with
    gets,           \* GETs issued by each process
    sleeps,         \* backoff sleeps begun by each worker
    returned,       \* value each finished worker task returned
    payloads,       \* what gather returned to main
    admitted,       \* the log of admissions: now - ts of each
    acquired,       \* calls of acquire that returned, for each process
    bad,            \* main's `bad`
    handed,         \* the argument main calls parameters_to_df with
    params_df       \* main's params_df: its rows, in order

vars == << win, lock, sleep_left, pc, records, site_ids,
           concurrency, created, sem, attempt,
           delay, retry_after, elapsed, hist, gets, sleeps, returned,
           payloads, admitted, acquired, bad, handed, params_df >>

limiterVars == << win, lock, sleep_left, admitted, acquired >>

reportVars == << bad, handed, params_df >>

fetchVars == << attempt, delay, retry_after, elapsed, hist, sleeps >>

\* ---------------------------------------------------- pure functions
\* while self._win and (now - self._win[0]) > 1.0: self._win.popleft()
RECURSIVE Prune(_)
Prune(w) ==
    IF w # <<>> /\ w[1] > Second THEN Prune(Tail(w)) ELSE w

\* 2 ** attempt
RECURSIVE Pow2(_)
Pow2(n) == IF n = 0 THEN 1 ELSE 2 * Pow2(n - 1)

Min(a, b) == IF a <= b THEN a ELSE b

\* float(ra) on the headers of RetryAfterHeaders: a string of decimal
\* digits is its value; None raises TypeError and any other string
\* raises ValueError (ok = FALSE).
DigitValue(c) ==
    CASE c = "0" -> 0 [] c = "1" -> 1 [] c = "2" -> 2 [] c = "3" -> 3
      [] c = "4" -> 4 [] c = "5" -> 5 [] c = "6" -> 6 [] c = "7" -> 7
      [] c = "8" -> 8 [] c = "9" -> 9 [] OTHER -> -1

RECURSIVE DecimalValue(_)
DecimalValue(h) ==
    IF h = <<>> THEN 0
    ELSE 10 * DecimalValue(SubSeq(h, 1, Len(h) - 1)) + DigitValue(h[Len(h)])

ParseFloat(h) ==
    IF h # NoHeader /\ h # <<>> /\ \A i \in 1..Len(h) : DigitValue(h[i]) >= 0
    THEN [ok |-> TRUE, value |-> DecimalValue(h)]
    ELSE [ok |-> FALSE, value |-> 0]

\* Mutants of RetryDelay: the header is never read; the fallback is
\* 2 * attempt in place of 2 ** attempt; and there is no delay after the
\* last attempt.
RetryDelay_NoneOnLast(ra, a) ==
    IF a + 1 >= MaxAttempts THEN 0
    ELSE IF ParseFloat(ra).ok THEN ParseFloat(ra).value
    ELSE Min(Pow2(a), BackoffCap)

RetryDelay_IgnoresHeader(ra, a) == Min(Pow2(a), BackoffCap)

RetryDelay_Linear(ra, a) ==
    IF ParseFloat(ra).ok THEN ParseFloat(ra).value
    ELSE Min(2 * a, BackoffCap)

\* try: delay = float(ra)
\* except (TypeError, ValueError): delay = min(2 ** attempt, 8)
RetryDelay(ra, a) ==
    IF ParseFloat(ra).ok THEN ParseFloat(ra).value
    ELSE Min(Pow2(a), BackoffCap)

\* Mutant of RaisesForStatus: the call is left out.
RaisesForStatus_Never(status) == FALSE

\* resp.raise_for_status(): raises for every status that is not 2xx.
RaisesForStatus(status) == status \notin 200..299

\* The three values fetch_site_parameters returns.
NotFound(sid) == [siteID |-> sid, parameters |-> <<>>]

Exhausted(sid) ==
    [siteID |-> sid, parameters |-> <<>>] @@ ("_error" :> "exhausted retries")

\* data = resp.json(); data["siteID"] = site_id
Success(sid, data) ==
    [k \in DOMAIN data \cup {"siteID"} |->
        IF k = "siteID" THEN sid ELSE data[k]]

\* sites_df["siteID"].dropna().unique().tolist(): the ids that are not
\* null, each once, in order of first appearance.
RECURSIVE Unique(_)
Unique(s) ==
    IF s = <<>> THEN <<>>
    ELSE LET init == Unique(SubSeq(s, 1, Len(s) - 1))
             x == s[Len(s)]
         IN IF \E i \in 1..Len(init) : init[i] = x THEN init
            ELSE Append(init, x)

DropNa(s) == SelectSeq(s, LAMBDA x : x # NoSite)

\* Mutant of ToSiteIds: repeated ids are kept.
ToSiteIds_KeepsRepeats(recs) == DropNa(recs)

ToSiteIds(recs) == Unique(DropNa(recs))

\* item.get(key): None when the key is missing.
None == "None"

Get(item, key) == IF key \in DOMAIN item THEN item[key] ELSE None

\* x or []
OrEmpty(x) == IF x = None THEN <<>> ELSE x

\* The concatenation of a sequence of sequences: what rows.append, called
\* in nested loops, builds.
RECURSIVE Flat(_)
Flat(ss) == IF ss = <<>> THEN <<>> ELSE ss[1] \o Flat(Tail(ss))

\* Lines 139-151: the rows of one time series.
RowsOfSeries(sid, pname, unit, ts) ==
    LET readings == OrEmpty(Get(ts, "readings"))
    IN [i \in 1..Len(readings) |->
          [siteID |-> sid, parameter |-> pname, unit |-> unit,
           series |-> Get(ts, "timeSeriesName"),
           since |-> Get(readings[i], "since"),
           until |-> Get(readings[i], "until"),
           averageValue |-> Get(readings[i], "averageValue"),
           healthAdvice |-> Get(readings[i], "healthAdvice"),
           healthAdviceColor |-> Get(readings[i], "healthAdviceColor"),
           healthCode |-> Get(readings[i], "healthCode")]]

\* Lines 135-139: the rows of one parameter.
RowsOfParameter(sid, p) ==
    LET tss == OrEmpty(Get(p, "timeSeriesReadings"))
    IN Flat([j \in 1..Len(tss) |->
                RowsOfSeries(sid, Get(p, "name"), Get(p, "unit"), tss[j])])

\* Lines 133-134: the rows of one payload.
RowsOfItem(item) ==
    LET ps == OrEmpty(Get(item, "parameters"))
    IN Flat([j \in 1..Len(ps) |-> RowsOfParameter(Get(item, "siteID"), ps[j])])

\* The order of site ids as strings.
SiteRank(sid) ==
    CASE sid = "A" -> 1 [] sid = "B" -> 2 [] sid = "C" -> 3
      [] sid = "D" -> 4 [] sid = "E" -> 5 [] OTHER -> 6

\* df.sort_values(["siteID", "parameter", "series", "since"]): the rows of
\* the bodies above agree on parameter, series and since, so siteID decides.
RECURSIVE SortRows(_)
SortRows(rows) ==
    IF rows = <<>> THEN <<>>
    ELSE LET least == CHOOSE i \in 1..Len(rows) :
                         \A j \in 1..Len(rows) :
                            \/ SiteRank(rows[i].siteID) < SiteRank(rows[j].siteID)
                            \/ /\ SiteRank(rows[i].siteID) = SiteRank(rows[j].siteID)
                               /\ i <= j
             rest == [k \in 1..(Len(rows) - 1) |->
                        IF k < least THEN rows[k] ELSE rows[k + 1]]
         IN <<rows[least]>> \o SortRows(rest)

\* Lines 130-157: the rows of all payloads, sorted when there are any.
parameters_to_df(items) ==
    SortRows(Flat([i \in 1..Len(items) |-> RowsOfItem(items[i])]))

\* Mutant of Bad: every payload without parameters counts as failed.
Bad_NoParameters(items) ==
    SelectSeq(items, LAMBDA item : OrEmpty(Get(item, "parameters")) = <<>>)

\* Line 172: bad = [p for p in payloads if p.get("_error")]
Bad(items) ==
    SelectSeq(items, LAMBDA item : Get(item, "_error") \notin {None, ""})

\* ------------------------------------------------------------- Init
NoResults == [t \in {} |-> 0]

Init ==
    /\ win = <<>>
    /\ lock = NoOne
    /\ sleep_left = 0
    /\ pc = [p \in Procs |-> IF p = Main THEN "acq_enter" ELSE "none"]
    /\ records = <<>>
    /\ site_ids = <<>>
    /\ concurrency \in 1..MaxConcurrency
    /\ created = 0
    /\ sem = concurrency
    /\ attempt = [t \in Workers |-> 0]
    /\ delay = [t \in Workers |-> 0]
    /\ retry_after = [t \in Workers |-> NoHeader]
    /\ elapsed = [t \in Workers |-> 0]
    /\ hist = [p \in Procs |-> <<>>]
    /\ gets = [p \in Procs |-> 0]
    /\ sleeps = [t \in Workers |-> 0]
    /\ returned = NoResults
    /\ payloads = <<>>
    /\ admitted = <<>>
    /\ acquired = [p \in Procs |-> 0]
    /\ bad = <<>>
    /\ handed = <<>>
    /\ params_df = <<>>

\* ---------------------------------------- AsyncRateLimiter.acquire
\* The log of admissions: the admission made now (age 0), after the
\* admissions of the second that ends now.  Timestamps never decrease, so
\* an older admission shares no 1-second interval with this one or with
\* any later one, and the log drops it.
Admit == Append(SelectSeq(admitted, LAMBDA age : age <= Second), 0)

\* Lines 30-43 up to the first suspension.  The task gets the lock and
\* prunes; with room it appends and returns; with a full window it
\* computes sleep_for and either suspends in asyncio.sleep, still inside
\* `async with self._lock`, or (sleep_for <= 0) re-reads the clock,
\* prunes again and appends.
AcquireEnter(p) ==
    /\ pc[p] = "acq_enter"
    /\ lock = NoOne
    /\ LET w1 == Prune(win)
       IN IF Len(w1) >= max_per_sec
          THEN LET sleep_for == Second - w1[1]
               IN IF sleep_for > 0
                  THEN /\ lock' = p
                       /\ win' = w1
                       /\ sleep_left' = sleep_for
                       /\ pc' = [pc EXCEPT ![p] = "acq_sleep"]
                       /\ UNCHANGED << admitted, acquired >>
                  ELSE /\ win' = Append(Prune(w1), 0)
                       /\ admitted' = Admit
                       /\ acquired' = [acquired EXCEPT ![p] = @ + 1]
                       /\ pc' = [pc EXCEPT ![p] = "admitted"]
                       /\ UNCHANGED << lock, sleep_left >>
          ELSE /\ win' = Append(w1, 0)
               /\ admitted' = Admit
               /\ acquired' = [acquired EXCEPT ![p] = @ + 1]
               /\ pc' = [pc EXCEPT ![p] = "admitted"]
               /\ UNCHANGED << lock, sleep_left >>
    /\ UNCHANGED << records, site_ids,
                    concurrency, created, sem, fetchVars, gets, returned,
                    payloads,
                    reportVars >>

\* Mutant of AcquireWake: the task returns from acquire without giving
\* the lock back.
AcquireWake_KeepsLock(p) ==
    /\ pc[p] = "acq_sleep"
    /\ lock = p
    /\ sleep_left = 0
    /\ win' = Append(Prune(win), 0)
    /\ admitted' = Admit
    /\ acquired' = [acquired EXCEPT ![p] = @ + 1]
    /\ pc' = [pc EXCEPT ![p] = "admitted"]
    /\ UNCHANGED << lock, sleep_left, records, site_ids,
                    concurrency, created, sem,
                    fetchVars, gets, returned, payloads, reportVars >>

\* Lines 39-43: the sleep is over (the loop runs a timer no earlier than
\* it is due), the task re-reads the clock, prunes, appends and leaves
\* the `async with`, releasing the lock.
AcquireWake(p) ==
    /\ pc[p] = "acq_sleep"
    /\ lock = p
    /\ sleep_left = 0
    /\ win' = Append(Prune(win), 0)
    /\ admitted' = Admit
    /\ acquired' = [acquired EXCEPT ![p] = @ + 1]
    /\ lock' = NoOne
    /\ pc' = [pc EXCEPT ![p] = "admitted"]
    /\ UNCHANGED << sleep_left, records, site_ids,
                    concurrency, created, sem, fetchVars,
                    gets, returned, payloads, reportVars >>

\* client.get(...): the request goes out (lines 55 and 93).
IssueGet(p) ==
    /\ pc[p] = "admitted"
    /\ gets' = [gets EXCEPT ![p] = @ + 1]
    /\ pc' = [pc EXCEPT ![p] = "get"]
    /\ UNCHANGED << limiterVars, records, site_ids,
                    concurrency, created, sem, fetchVars,
                    returned, payloads, reportVars >>

\* ------------------------------------------------- fetch_air_sites
\* Lines 55-57 and 163-166: the listing is answered.  A non-2xx status
\* makes raise_for_status raise, and nothing in main catches it; a 2xx
\* answer gives the records, from which main derives site_ids.  With no
\* record at all sites_to_df builds a frame without columns, and
\* sites_df["siteID"] raises KeyError.
ListingRespond(status, recs) ==
    /\ pc[Main] = "get"
    /\ hist' = [hist EXCEPT ![Main] = Append(@, status)]
    /\ IF RaisesForStatus(status) \/ recs = <<>>
       THEN /\ pc' = [pc EXCEPT ![Main] = "aborted"]
            /\ UNCHANGED << records, site_ids >>
       ELSE /\ pc' = [pc EXCEPT ![Main] = "create"]
            /\ records' = recs
            /\ site_ids' = ToSiteIds(recs)
    /\ UNCHANGED << limiterVars, concurrency, created, sem, attempt, delay,
                    retry_after, elapsed, gets, sleeps, returned, payloads,
                    reportVars >>

\* ---------------------------------------------- fetch_all_parameters
\* Lines 122-124: one turn of the loop; the new task starts at
\* `async with sem`, and main yields in asyncio.sleep(0.01).  Nothing
\* reads `records` after line 164, and the model forgets it here.
CreateTask ==
    /\ pc[Main] = "create"
    /\ created < Len(site_ids)
    /\ created' = created + 1
    /\ records' = <<>>
    /\ pc' = [pc EXCEPT ![created + 1] = "sem_wait"]
    /\ UNCHANGED << limiterVars, site_ids, concurrency, sem, fetchVars, gets,
                    returned, payloads, reportVars >>

\* Line 125, gather returning, and lines 169-185: every task has returned
\* a value, the values come back in the order of site_ids, and main runs
\* on to its end without another await: it collects `bad` and flattens
\* the payloads.
GatherReturn ==
    /\ pc[Main] = "create"
    /\ created = Len(site_ids)
    /\ \A t \in 1..created : pc[t] = "done"
    /\ payloads' = [i \in 1..created |-> returned[i]]
    /\ records' = <<>>
    /\ bad' = Bad(payloads')
    /\ handed' = payloads'
    /\ params_df' = parameters_to_df(handed')
    /\ pc' = [pc EXCEPT ![Main] = "returned"]
    /\ UNCHANGED << limiterVars, site_ids, concurrency, created, sem, fetchVars,
                    gets, returned >>

\* Line 125, gather raising: gather(*tasks) without return_exceptions
\* hands the first exception of any task to its awaiter at once and does
\* not cancel or wait for the other tasks.  Nothing in
\* fetch_all_parameters or main catches it.
GatherRaise ==
    /\ pc[Main] = "create"
    /\ created = Len(site_ids)
    /\ \E t \in 1..created : pc[t] = "raised"
    /\ pc' = [pc EXCEPT ![Main] = "raised"]
    /\ UNCHANGED << limiterVars, records, site_ids,
                    concurrency, created, sem, fetchVars,
                    gets, returned, payloads, reportVars >>

\* Line 188: asyncio.run ends with main's exception and cancels every
\* task still pending; a cancelled task leaves its `async with` blocks,
\* giving back the lock and its semaphore slot.
HoldsSlot(t) ==
    pc[t] \in {"acq_enter", "acq_sleep", "admitted", "get", "backoff"}

Shutdown ==
    /\ pc[Main] = "raised"
    /\ pc' = [p \in Procs |->
                IF p = Main THEN "exited"
                ELSE IF pc[p] \in {"none", "done", "raised"} THEN pc[p]
                ELSE "cancelled"]
    /\ lock' = NoOne
    /\ sem' = sem + Cardinality({t \in Workers : HoldsSlot(t)})
    /\ UNCHANGED << win, sleep_left, admitted, acquired, records, site_ids,
                    concurrency, created,
                    fetchVars, gets, returned, payloads, reportVars >>

\* ------------------------------------------------------------ worker
\* Line 118: `async with sem` takes a slot when one is free, and the
\* task enters fetch_site_parameters, whose loop starts with acquire.
\* (SemFree_Always is the mutant that never makes a task wait, and
\* SemFree_InBackoff the one that lends out the slot of a task that
\* sleeps in backoff.)
SemFree_Always == TRUE

SemFree_InBackoff == sem > 0 \/ \E t \in Workers : pc[t] = "backoff"

SemFree == sem > 0

SemAcquire(t) ==
    /\ pc[t] = "sem_wait"
    /\ SemFree
    /\ sem' = sem - 1
    /\ attempt' = [attempt EXCEPT ![t] = 0]
    /\ pc' = [pc EXCEPT ![t] = "acq_enter"]
    /\ UNCHANGED << limiterVars, records, site_ids,
                    concurrency, created, delay, retry_after,
                    elapsed, hist, gets, sleeps, returned, payloads, reportVars >>

\* ---------------------------------------------- fetch_site_parameters
\* Mutant of Return: the task ends without giving its slot back.
Return_KeepsSlot(t, value) ==
    /\ returned' = returned @@ (t :> value)
    /\ UNCHANGED sem
    /\ pc' = [pc EXCEPT ![t] = "done"]

\* The task returns `value`: it leaves `async with sem` and is done.
Return(t, value) ==
    /\ returned' = returned @@ (t :> value)
    /\ sem' = sem + 1
    /\ pc' = [pc EXCEPT ![t] = "done"]

\* Mutant of Outcome: a 404 is retried like a 429.
Outcome_Retries404(status) ==
    IF status \in {429, 404} THEN "retry"
    ELSE IF RaisesForStatus(status) THEN "raise"
    ELSE "success"

\* What lines 94-109 do with a status: "retry" (429), "not_found" (404),
\* "raise" (raise_for_status raises) or "success".
Outcome(status) ==
    IF status = 429 THEN "retry"
    ELSE IF status = 404 THEN "not_found"
    ELSE IF RaisesForStatus(status) THEN "raise"
    ELSE "success"

\* Lines 93-109: the GET of worker t is answered with `status`, with the
\* Retry-After header `ra` (read on a 429) and the JSON body `body`
\* (read on a 2xx).
Respond(t, status, ra, body) ==
    /\ t \in 1..created
    /\ pc[t] = "get"
    /\ hist' = [hist EXCEPT ![t] = Append(@, status)]
    /\ CASE Outcome(status) = "retry" ->
              /\ retry_after' = [retry_after EXCEPT ![t] = ra]
              /\ delay' = [delay EXCEPT ![t] = RetryDelay(ra, attempt[t])]
              /\ elapsed' = [elapsed EXCEPT ![t] = 0]
              /\ sleeps' = [sleeps EXCEPT ![t] = @ + 1]
              /\ pc' = [pc EXCEPT ![t] = "backoff"]
              /\ UNCHANGED << sem, returned >>
         [] Outcome(status) = "not_found" ->
              /\ Return(t, NotFound(site_ids[t]))
              /\ UNCHANGED << retry_after, delay, elapsed, sleeps >>
         [] Outcome(status) = "raise" ->
              /\ pc' = [pc EXCEPT ![t] = "raised"]
              /\ sem' = sem + 1
              /\ UNCHANGED << returned, retry_after, delay, elapsed, sleeps >>
         [] OTHER ->
              /\ Return(t, Success(site_ids[t], body))
              /\ UNCHANGED << retry_after, delay, elapsed, sleeps >>
    /\ UNCHANGED << limiterVars, records, site_ids,
                    concurrency, created, attempt, gets,
                    payloads,
                    reportVars >>

\* Mutant of HasNextAttempt: the loop is one turn short.
HasNextAttempt_OneShort(a) == a + 2 < MaxAttempts

\* for attempt in range(4): is there a next turn after turn a?
HasNextAttempt(a) == a + 1 < MaxAttempts

\* Mutant of BackoffWake: the next turn of the loop skips acquire.
BackoffWake_SkipsAcquire(t) ==
    /\ pc[t] = "backoff"
    /\ elapsed[t] >= delay[t]
    /\ IF HasNextAttempt(attempt[t])
       THEN /\ attempt' = [attempt EXCEPT ![t] = @ + 1]
            /\ pc' = [pc EXCEPT ![t] = "admitted"]
            /\ UNCHANGED << sem, returned >>
       ELSE /\ Return(t, Exhausted(site_ids[t]))
            /\ UNCHANGED attempt
    /\ delay' = [delay EXCEPT ![t] = 0]
    /\ retry_after' = [retry_after EXCEPT ![t] = NoHeader]
    /\ elapsed' = [elapsed EXCEPT ![t] = 0]
    /\ UNCHANGED << limiterVars, records, site_ids, concurrency, created, hist,
                    gets, sleeps, payloads, reportVars >>

\* Lines 100-101 and 111: asyncio.sleep(delay) is over (the loop runs a
\* timer no earlier than it is due) and `continue` takes the next turn of
\* the loop, or the loop is exhausted and line 111 returns.  The header
\* and the delay are not read again: the model forgets them here.
BackoffWake(t) ==
    /\ pc[t] = "backoff"
    /\ elapsed[t] >= delay[t]
    /\ IF HasNextAttempt(attempt[t])
       THEN /\ attempt' = [attempt EXCEPT ![t] = @ + 1]
            /\ pc' = [pc EXCEPT ![t] = "acq_enter"]
            /\ UNCHANGED << sem, returned >>
       ELSE /\ Return(t, Exhausted(site_ids[t]))
            /\ UNCHANGED attempt
    /\ delay' = [delay EXCEPT ![t] = 0]
    /\ retry_after' = [retry_after EXCEPT ![t] = NoHeader]
    /\ elapsed' = [elapsed EXCEPT ![t] = 0]
    /\ UNCHANGED << limiterVars, records, site_ids,
                    concurrency, created, hist, gets, sleeps,
                    payloads,
                    reportVars >>

\* The parts of an answer the code reads: the Retry-After header of a
\* 429 only, the body of a 2xx only.  The parts it does not read are
\* fixed, so that an answer is not counted once for each of them.
HeadersRead(status) ==
    IF Outcome(status) = "retry" THEN RetryAfterHeaders ELSE {NoHeader}

BodiesRead(status) ==
    IF Outcome(status) = "success" THEN Bodies ELSE {[siteName |-> "s"]}

ListingsRead(status) ==
    IF RaisesForStatus(status) THEN {<<>>} ELSE Listings

\* -------------------------------------------------------------- time
\* A second passes: every stored timestamp is a second older, the sleep
\* of acquire has a second less to go, and the stopwatch of every worker
\* in its backoff sleep runs.  An age past Second compares as any larger
\* age would, and so does a stopwatch that has reached both the delay
\* slept and the delay the header asked for.
Max(a, b) == IF a >= b THEN a ELSE b

StopwatchCap(t) == Max(delay[t], ParseFloat(retry_after[t]).value)

Older(w) == [i \in 1..Len(w) |-> Min(w[i] + 1, Second + 1)]

Tick ==
    /\ win' = Older(win)
    /\ admitted' = Older(admitted)
    /\ sleep_left' = IF sleep_left > 0 THEN sleep_left - 1 ELSE 0
    /\ elapsed' = [t \in Workers |->
                     IF pc[t] = "backoff"
                     THEN Min(elapsed[t] + 1, Max(elapsed[t], StopwatchCap(t)))
                     ELSE elapsed[t]]
    /\ UNCHANGED << lock, acquired, pc, records, site_ids,
                    concurrency, created, sem, attempt,
                    delay, retry_after, hist, sleeps, gets, returned,
                    payloads,
                    reportVars >>

Next ==
    \/ \E p \in Procs : AcquireEnter(p)
    \/ \E p \in Procs : AcquireWake(p)
    \/ \E p \in Procs : IssueGet(p)
    \/ \E status \in Statuses :
          \E recs \in ListingsRead(status) :
             ListingRespond(status, recs)
    \/ CreateTask
    \/ GatherReturn
    \/ GatherRaise
    \/ Shutdown
    \/ \E t \in Workers : SemAcquire(t)
    \/ \E t \in Workers, status \in Statuses :
          \E ra \in HeadersRead(status), body \in BodiesRead(status) :
             Respond(t, status, ra, body)
    \/ \E t \in Workers : BackoffWake(t)
    \/ Tick

Spec == Init /\ [][Next]_vars

\* ------------------------------------------ the limiter under load
\* A run in which the callers of acquire crowd the limiter, as main's
\* concurrency=8 does with max_per_sec=5: the listing names MaxRecords
\* sites, the semaphore has a slot for each of them, so every worker calls
\* acquire as soon as it starts, and every per-site GET is answered 200.
BusyListing == [i \in 1..MaxRecords |-> <<"A", "B", "C", "D", "E">>[i]]

BusyBody == [siteName |-> "s"]

LimiterInit ==
    /\ win = <<>>
    /\ lock = NoOne
    /\ sleep_left = 0
    /\ pc = [p \in Procs |-> IF p = Main THEN "acq_enter" ELSE "none"]
    /\ records = <<>>
    /\ site_ids = <<>>
    /\ concurrency = MaxRecords
    /\ created = 0
    /\ sem = concurrency
    /\ attempt = [t \in Workers |-> 0]
    /\ delay = [t \in Workers |-> 0]
    /\ retry_after = [t \in Workers |-> NoHeader]
    /\ elapsed = [t \in Workers |-> 0]
    /\ hist = [p \in Procs |-> <<>>]
    /\ gets = [p \in Procs |-> 0]
    /\ sleeps = [t \in Workers |-> 0]
    /\ returned = NoResults
    /\ payloads = <<>>
    /\ admitted = <<>>
    /\ acquired = [p \in Procs |-> 0]
    /\ bad = <<>>
    /\ handed = <<>>
    /\ params_df = <<>>

LimiterNext ==
    \/ \E p \in Procs : AcquireEnter(p)
    \/ \E p \in Procs : AcquireWake(p)
    \/ \E p \in Procs : IssueGet(p)
    \/ ListingRespond(200, BusyListing)
    \/ CreateTask
    \/ GatherReturn
    \/ \E t \in Workers : SemAcquire(t)
    \/ \E t \in Workers : Respond(t, 200, NoHeader, BusyBody)
    \/ Tick

\* The scheduling asyncio gives the program: the clock advances, the loop
\* runs a timer's callback once the timer is due, and asyncio.Lock wakes a
\* waiter whenever the lock is released, so a task that can take the lock,
\* or whose sleep in acquire is over, does run.
Fairness ==
    /\ WF_vars(Tick)
    /\ \A p \in Procs : WF_vars(AcquireEnter(p))
    /\ \A p \in Procs : WF_vars(AcquireWake(p))

LimiterSpec == LimiterInit /\ [][LimiterNext]_vars /\ Fairness

\* ------------------------------------------------ the end-to-end run
\* Runs of the whole of main in which nothing fails but by 404 or 429:
\* the listing names three distinct sites, and each site has one fate: its
\* first GET is answered 200, with any of the bodies above, or 404, or
\* 429, and after a 429 every further GET of the site is answered 429 too
\* (with a Retry-After of "0").
ScenarioListing == <<"A", "B", "C">>

ScenarioStatuses == {200, 404, 429}

ScenarioHeaders(status) ==
    IF Outcome(status) = "retry" THEN {<<"0">>} ELSE {NoHeader}

ScenarioNext ==
    \/ \E p \in Procs : AcquireEnter(p)
    \/ \E p \in Procs : AcquireWake(p)
    \/ \E p \in Procs : IssueGet(p)
    \/ ListingRespond(200, ScenarioListing)
    \/ CreateTask
    \/ GatherReturn
    \/ \E t \in Workers : SemAcquire(t)
    \/ \E t \in Workers, status \in ScenarioStatuses :
          \E ra \in ScenarioHeaders(status), body \in BodiesRead(status) :
             /\ hist[t] # <<>> => status = 429
             /\ Respond(t, status, ra, body)
    \/ \E t \in Workers : BackoffWake(t)
    \/ Tick

ScenarioSpec == Init /\ [][ScenarioNext]_vars

\* ============================================================ claims
\* Helpers of the formulas below.
IsAcquiring(p) == pc[p] \in {"acq_enter", "acq_sleep"}

\* n answers of 429.
Only429(n) == [i \in 1..n |-> 429]

\* n answers of 429 and then `status`.
ThenStatus(n, status) == [i \in 1..(n + 1) |-> IF i <= n THEN 429 ELSE status]

\* v is a 2xx body of the API with its siteID set to sid.
IsSuccessOf(v, sid) ==
    \E body \in Bodies :
        /\ DOMAIN v = DOMAIN body \cup {"siteID"}
        /\ v["siteID"] = sid
        /\ \A k \in DOMAIN body \ {"siteID"} : v[k] = body[k]

\* C1: no 1-second interval holds more than max_per_sec admission
\* timestamps.  The log `admitted` holds the admissions of the second that
\* ends at the latest admission, both ends included, so the claim is that
\* the log never holds more than max_per_sec entries.
C1_AtMostKPerSecond == Len(admitted) <= max_per_sec

\* C2: whenever a call of acquire returns, the window holds at most
\* max_per_sec timestamps, on the path with room and on the path that found
\* the window full.
C2_WindowWithinCapOnReturn ==
    [][ (\E p \in Procs : IsAcquiring(p) /\ pc'[p] = "admitted")
            => Len(win') <= max_per_sec ]_vars

\* C3: a worker whose GETs are answered 429 a times and then 200 returns
\* the success payload, tagged with its site id, after exactly a + 1 GETs,
\* for a = 0, 1, 2, 3; a worker answered 429 four times issues exactly four
\* GETs and returns the exhausted payload, without raising; and only four
\* 429s make a worker return the exhausted payload.
C3_RetriesThenSuccessOrExhausted ==
    \A t \in Workers :
        /\ \A a \in 0..3 :
              hist[t] = ThenStatus(a, 200)
                  => /\ pc[t] = "done"
                     /\ gets[t] = a + 1
                     /\ IsSuccessOf(returned[t], site_ids[t])
        /\ hist[t] = Only429(4)
              => /\ gets[t] = 4
                 /\ pc[t] \in {"backoff", "done", "cancelled"}
        /\ (pc[t] = "done" /\ hist[t] # <<>> /\ hist[t][Len(hist[t])] = 429)
              => /\ hist[t] = Only429(4)
                 /\ gets[t] = 4
                 /\ returned[t] =
                       [siteID |-> site_ids[t], parameters |-> <<>>]
                           @@ ("_error" :> "exhausted retries")

C3_Witness ==
    \E t, u \in Workers :
        /\ pc[t] = "done" /\ hist[t] = ThenStatus(3, 200)
        /\ pc[u] = "done" /\ hist[u] = Only429(4)

\* C4: a 404 is terminal on whichever attempt it comes.  It is the last
\* answer the worker gets: the worker has returned the not-found payload,
\* has issued no GET after it and has slept only after the 429s before
\* it.  A 404 on the first attempt so costs one GET and no backoff sleep.
C4_NotFoundIsTerminal ==
    \A t \in Workers : \A i \in 1..Len(hist[t]) :
        hist[t][i] = 404
            => /\ i = Len(hist[t])
               /\ pc[t] = "done"
               /\ returned[t] = [siteID |-> site_ids[t], parameters |-> <<>>]
               /\ gets[t] = i
               /\ sleeps[t] = i - 1

C4_Witness ==
    \E t, u \in Workers :
        /\ pc[t] = "done" /\ hist[t] = <<404>> /\ gets[t] = 1 /\ sleeps[t] = 0
        /\ pc[u] = "done" /\ hist[u] = ThenStatus(2, 404)

\* C5: fetch_site_parameters never raises to its caller: whatever the
\* status of an answer, no worker ends with an exception, and an answer
\* that is neither 2xx nor 404 nor 429 ends the worker with a returned
\* payload that carries _error.
C5_FetchNeverRaises ==
    \A t \in Workers :
        /\ pc[t] # "raised"
        /\ (hist[t] # <<>>
              /\ hist[t][Len(hist[t])] \notin (200..299) \cup {404, 429})
              => pc[t] = "done" /\ "_error" \in DOMAIN returned[t]

\* C6: fetch_all_parameters never has more than `concurrency` workers
\* inside fetch_site_parameters, and when it returns it returns exactly
\* one result for each site id: as many results as ids, each id once.
InFetch(t) == pc[t] \in {"acq_enter", "acq_sleep", "admitted", "get", "backoff"}

C6_BoundedFanOutOneResultEach ==
    /\ Cardinality({t \in Workers : InFetch(t)}) <= concurrency
    /\ pc[Main] = "returned"
          => /\ Len(payloads) = Len(site_ids)
             /\ \A i \in 1..Len(site_ids) :
                   Cardinality({j \in 1..Len(payloads) :
                                   payloads[j]["siteID"] = site_ids[i]}) = 1

C6_Witness ==
    /\ pc[Main] = "returned"
    /\ concurrency = 1
    /\ Len(site_ids) = 2
    /\ IsSuccessOf(payloads[1], site_ids[1])
    /\ "_error" \in DOMAIN payloads[2]

\* C7: when the call of fetch_all_parameters ends, by returning or by
\* raising into main, every worker task it created has finished.
C7_NoWorkerOutlivesThePool ==
    pc[Main] \in {"returned", "raised"}
        => \A t \in 1..created : pc[t] \in {"done", "raised"}

\* C8: the listing GET is issued once and never retried, and when it is
\* answered with a non-2xx status main aborts: no worker task is created
\* and no per-site GET is issued.
C8_ListingFailureAbortsBeforeFanOut ==
    /\ gets[Main] <= 1
    /\ Len(hist[Main]) <= 1
    /\ (hist[Main] # <<>> /\ hist[Main][1] \notin 200..299)
          => /\ pc[Main] = "aborted"
             /\ created = 0
             /\ \A t \in Workers : pc[t] = "none" /\ gets[t] = 0

C8_Witness ==
    /\ pc[Main] = "aborted"
    /\ hist[Main] = <<500>>
    /\ gets[Main] = 1

\* C9: after a 429 whose Retry-After header parses as n seconds the worker
\* sleeps n seconds, whatever the attempt: the delay it chose is n, not
\* the exponential value, and its sleep ends (and with it the wait for its
\* next acquire and GET) no sooner than n seconds after the 429.
C9_RetryAfterOverridesBackoff ==
    [][ \A t \in Workers :
            (pc[t] = "backoff" /\ pc'[t] \notin {"backoff", "cancelled"})
                => /\ retry_after[t] = <<"0">> => delay[t] = 0
                   /\ retry_after[t] = <<"3">>
                         => delay[t] = 3 /\ elapsed[t] >= 3 ]_vars

C9_Witness ==
    \E t \in Workers :
        /\ pc[t] = "backoff"
        /\ attempt[t] = 2
        /\ retry_after[t] = <<"3">>
        /\ elapsed[t] = 3

\* C10: without a usable Retry-After header the delay chosen at attempt
\* index a is 1, 2, 4, 8 seconds for a = 0, 1, 2, 3, and never more than 8.
C10_ExponentialBackoffTable ==
    \A t \in Workers :
        (pc[t] = "backoff" /\ retry_after[t] \notin {<<"0">>, <<"3">>})
            => /\ delay[t] = <<1, 2, 4, 8>>[attempt[t] + 1]
               /\ delay[t] <= 8

C10_Witness ==
    \E t \in Workers :
        /\ pc[t] = "backoff"
        /\ attempt[t] = 3
        /\ retry_after[t] = NoHeader
        /\ delay[t] = 8
        /\ elapsed[t] = 8

\* C11: under fair scheduling and advancing time every call of acquire
\* ends: a task that has called acquire, whether it waits for the lock or
\* sleeps with a full window, is eventually admitted, however many tasks
\* call acquire with it.
C11_AcquireEventuallyReturns ==
    \A p \in Procs : IsAcquiring(p) ~> pc[p] = "admitted"

\* One task sleeps in acquire with a full window and the lock, and
\* another, that called acquire after it, waits for the lock.
C11_Witness ==
    \E p, q \in Workers :
        /\ p # q
        /\ pc[p] = "acq_sleep" /\ lock = p /\ sleep_left > 0
        /\ Len(win) >= max_per_sec
        /\ pc[q] = "acq_enter"

\* C12: acquire does not hold the limiter's lock across its sleep: no
\* task is suspended in the sleep of a full window while it owns the
\* lock, so a task that calls acquire meanwhile can take the lock.
C12_LockFreeDuringSleep ==
    \A p \in Procs :
        pc[p] = "acq_sleep"
            => /\ lock # p
               /\ \A q \in Procs : pc[q] = "acq_enter" => ENABLED AcquireEnter(q)

\* Helpers: the last status a worker was answered with.
LastStatus(t) == hist[t][Len(hist[t])]

EndedWith(t, statuses) ==
    pc[t] = "done" /\ hist[t] # <<>> /\ LastStatus(t) \in statuses

\* C13: the value a worker returns tells which of the three outcomes it
\* had.  The value returned after a 404 is not a value the same site
\* returns after a 2xx, whatever the body, nor the exhausted value; and
\* the value returned after a 2xx is neither the not-found value nor the
\* exhausted value of its site.
C13_OutcomesDistinguishable ==
    \A t \in Workers :
        /\ EndedWith(t, {404})
              => /\ returned[t] # Exhausted(site_ids[t])
                 /\ \A body \in Bodies :
                       returned[t] # Success(site_ids[t], body)
        /\ EndedWith(t, 200..299)
              => /\ returned[t] # NotFound(site_ids[t])
                 /\ returned[t] # Exhausted(site_ids[t])
        /\ EndedWith(t, {429})
              => /\ returned[t] # NotFound(site_ids[t])
                 /\ \A body \in Bodies :
                       returned[t] # Success(site_ids[t], body)

\* Helpers: the number of readings in a returned value, counted parameter
\* by parameter and series by series.
RECURSIVE SumLens(_)
SumLens(ss) == IF ss = <<>> THEN 0 ELSE Len(ss[1]) + SumLens(Tail(ss))

ReadingsOfParameter(p) ==
    IF "timeSeriesReadings" \in DOMAIN p
    THEN SumLens([j \in 1..Len(p.timeSeriesReadings) |->
                     IF "readings" \in DOMAIN p.timeSeriesReadings[j]
                     THEN p.timeSeriesReadings[j].readings ELSE <<>>])
    ELSE 0

RECURSIVE SumReadings(_)
SumReadings(ps) ==
    IF ps = <<>> THEN 0 ELSE ReadingsOfParameter(ps[1]) + SumReadings(Tail(ps))

ReadingsOf(v) ==
    IF "parameters" \in DOMAIN v THEN SumReadings(v.parameters) ELSE 0

RECURSIVE SumOver(_, _)
SumOver(f, S) ==
    IF S = {} THEN 0
    ELSE LET x == CHOOSE y \in S : TRUE IN f[x] + SumOver(f, S \ {x})

RowsOfSite(sid) ==
    Cardinality({i \in 1..Len(params_df) : params_df[i].siteID = sid})

BadOfSite(sid) == Cardinality({i \in 1..Len(bad) : bad[i].siteID = sid})

\* C14: end to end, with a listing of distinct sites each of which
\* succeeds, or is answered 404, or is answered 429 on all four attempts,
\* the run does not fail, and when main has finished the frame has as many
\* rows as the sites that succeeded have readings; a site answered 404 has
\* no row and is not in the exhausted list; a site answered 429 four times
\* has no row and is in the exhausted list exactly once.
C14_EndToEnd ==
    /\ pc[Main] \notin {"raised", "aborted", "exited"}
    /\ \A t \in Workers : pc[t] \notin {"raised", "cancelled"}
    /\ pc[Main] = "returned"
          => /\ Len(params_df) =
                   SumOver([t \in Workers |->
                               IF EndedWith(t, 200..299)
                               THEN ReadingsOf(returned[t]) ELSE 0], Workers)
             /\ \A t \in 1..Len(site_ids) :
                   /\ EndedWith(t, 200..299)
                         => /\ RowsOfSite(site_ids[t]) = ReadingsOf(returned[t])
                            /\ BadOfSite(site_ids[t]) = 0
                   /\ EndedWith(t, {404})
                         => /\ RowsOfSite(site_ids[t]) = 0
                            /\ BadOfSite(site_ids[t]) = 0
                   /\ EndedWith(t, {429})
                         => /\ hist[t] = Only429(4)
                            /\ RowsOfSite(site_ids[t]) = 0
                            /\ BadOfSite(site_ids[t]) = 1

\* Site A succeeded with one reading, B was answered 404, C was answered
\* 429 four times: one row, of A, and the exhausted list is [C].
C14_Witness ==
    /\ pc[Main] = "returned"
    /\ site_ids = <<"A", "B", "C">>
    /\ hist[1] = <<200>> /\ ReadingsOf(returned[1]) = 1
    /\ hist[2] = <<404>>
    /\ hist[3] = Only429(4)
    /\ Len(params_df) = 1
    /\ params_df[1].siteID = "A"
    /\ Len(bad) = 1
    /\ bad[1].siteID = "C"

\* C15: every GET follows an admission of its own: the k-th GET of a task
\* goes out after the task's k-th call of acquire returned, so a task has
\* never issued more GETs than it has admissions, a task whose GET is out
\* has exactly as many of both, and a worker on its attempt a (after a
\* 429 backoffs) has acquired a + 1 times before its GET a + 1.
C15_AcquireBeforeEveryGet ==
    \A p \in Procs :
        /\ gets[p] <= acquired[p]
        /\ pc[p] = "get" => gets[p] = acquired[p]
        /\ (p \in Workers /\ pc[p] = "get") => gets[p] = attempt[p] + 1
        /\ pc[p] = "admitted" => acquired[p] = gets[p] + 1

C15_Witness ==
    \E t \in Workers :
        /\ pc[t] = "get"
        /\ hist[t] = Only429(3)
        /\ gets[t] = 4
        /\ acquired[t] = 4

\* C16: a worker holds one slot of the semaphore exactly while it is
\* inside fetch_site_parameters and gives it back on every way out, by a
\* returned value or by an exception: the slots held are between 0 and
\* `concurrency`, they are those of the workers inside the fetch, and
\* when every worker has ended none is held.
Held == concurrency - sem

C16_SlotGivenBackOnEveryExit ==
    /\ Held \in 0..concurrency
    /\ Held = Cardinality({t \in Workers : HoldsSlot(t)})
    /\ (\A t \in 1..created : pc[t] \in {"done", "raised", "cancelled"})
          => Held = 0

C16_Witness ==
    \E t, u \in Workers :
        /\ pc[t] = "done" /\ "_error" \in DOMAIN returned[t]
        /\ pc[u] = "raised"
        /\ created = 2
        /\ concurrency = 1
        /\ sem = 1

\* C17: the ids main hands to fetch_all_parameters are the ids of the
\* listing, without the missing ones and each once, however often the
\* listing repeats an id; one worker task is created for each of them and
\* one result comes back for each.
Occurs(x, seq) == Cardinality({i \in 1..Len(seq) : seq[i] = x})

C17_EachSiteDispatchedOnce ==
    /\ \A i \in 1..Len(site_ids) :
          site_ids[i] # NoSite /\ Occurs(site_ids[i], site_ids) = 1
    /\ records # <<>>
          => /\ \A i \in 1..Len(records) :
                   records[i] # NoSite => Occurs(records[i], site_ids) = 1
             /\ \A i \in 1..Len(site_ids) : Occurs(site_ids[i], records) >= 1
    /\ created <= Len(site_ids)
    /\ \A t \in Workers : pc[t] # "none" <=> t <= created
    /\ pc[Main] = "returned"
          => /\ created = Len(site_ids)
             /\ Len(payloads) = Len(site_ids)
             /\ \A i \in 1..Len(site_ids) :
                   payloads[i]["siteID"] = site_ids[i]

C17_Witness ==
    /\ records = <<"B", NoSite, "B">>
    /\ site_ids = <<"B">>
    /\ pc[Main] = "create"

\* C18: after the pool returns main splits the results: `bad` holds
\* exactly the results of the sites whose fetch was exhausted, and the
\* others, and only they, are handed to parameters_to_df.
IsExhaustedValue(v) == "_error" \in DOMAIN v

C18_OnlyUsableHandedOn ==
    pc[Main] = "returned"
        => /\ bad = SelectSeq(payloads, IsExhaustedValue)
           /\ \A i \in 1..Len(payloads) :
                 IsExhaustedValue(payloads[i]) <=> EndedWith(i, {429})
           /\ handed = SelectSeq(payloads, LAMBDA v : ~IsExhaustedValue(v))

\* C19: every 429 is followed by one backoff sleep, the 429 of the fourth
\* attempt too: the worker has begun as many sleeps as it got 429s; after
\* the fourth 429 it sleeps the delay of Retry-After, or 8 seconds; and
\* it returns the exhausted value only out of that sleep, once the delay
\* has passed.
Count429(h) == Cardinality({i \in 1..Len(h) : h[i] = 429})

C19_SleepAfterEvery429 ==
    [][ \A t \in Workers :
            /\ sleeps'[t] = Count429(hist'[t])
            /\ (pc[t] = "get" /\ hist'[t] = Only429(4))
                  => /\ pc'[t] = "backoff"
                     /\ delay'[t] = IF ParseFloat(retry_after'[t]).ok
                                    THEN ParseFloat(retry_after'[t]).value
                                    ELSE 8
            /\ (pc[t] # "done" /\ pc'[t] = "done"
                   /\ IsExhaustedValue(returned'[t]))
                  => /\ pc[t] = "backoff"
                     /\ hist[t] = Only429(4)
                     /\ elapsed[t] >= delay[t] ]_vars

C19_Witness ==
    \E t \in Workers :
        /\ pc[t] = "backoff"
        /\ hist[t] = Only429(4)
        /\ sleeps[t] = 4
        /\ retry_after[t] = <<"s", "o", "o", "n">>
        /\ delay[t] = 8
        /\ elapsed[t] = 5

\* C20: a worker keeps its slot through the whole of
\* fetch_site_parameters, its waits in acquire and its backoff sleeps
\* included: while `concurrency` workers sleep in backoff no slot is free,
\* no waiting worker gets one, and no site that has had no GET gets its
\* first.
AllSlotsInBackoff ==
    Cardinality({t \in Workers : pc[t] = "backoff"}) = concurrency

C20_BackoffKeepsTheSlot ==
    [][ AllSlotsInBackoff
            => /\ sem = 0
               /\ \A u \in Workers :
                     /\ gets[u] = 0 => gets'[u] = 0
                     /\ pc[u] = "sem_wait"
                           => pc'[u] \in {"sem_wait", "cancelled"} ]_vars

C20_Witness ==
    /\ AllSlotsInBackoff
    /\ \E t, u \in Workers :
          /\ pc[t] = "backoff" /\ elapsed[t] = 2 /\ delay[t] = 4
          /\ pc[u] = "sem_wait" /\ gets[u] = 0

====
